---- MODULE Spec2Model ----
(***************************************************************************)
(* TravelCoin: the FX layer (src/fx_api.py) and the handlers of src/app.py  *)
(* that read or write the collections users, sessions and records, as one  *)
(* state machine.                                                          *)
(*                                                                         *)
(* One FX operation is followed from its call to its return.  A call that  *)
(* needs the upstream API sits in pc = "fetch" while the shared session    *)
(* sends GET attempts; every attempt is one step in which the upstream     *)
(* answers (status, headers, body).  An answer is retried by the adapter,  *)
(* followed as a redirect by the session, or handed to _get_json.  The     *)
(* code that runs between two network operations is pure and is part of    *)
(* the step that ends the fetch.  The handlers of src/app.py are served    *)
(* concurrently: a step of a handler is the answer of one round trip to    *)
(* the database or to the upstream, together with the code that runs until *)
(* the handler issues its next round trip or returns.                      *)
(*                                                                         *)
(* Decimal values are records [c, e] standing for c * 10^e, as Python's    *)
(* decimal.Decimal keeps them (coefficient and exponent).  The context     *)
(* precision of 28 digits is never reached by the values drawn here (all   *)
(* coefficients stay below 2^31), so products are exact.                   *)
(***************************************************************************)
EXTENDS Integers, Sequences, FiniteSets, Bags

VARIABLES
    pc,          \* "idle" | "fetch" | "done"
    op,          \* the public operation being executed
    base,        \* base_currency argument, as passed (not upper-cased)
    target,      \* target_currency argument, as passed
    amount,      \* amount argument (Decimal)
    session,     \* POST /convert: the document validate_session returned (NoUser: None)
    rates,       \* analyze_rate_trend argument
    req,         \* endpoint of the GET in flight
    retryTotal,  \* Retry.total left for the request in flight (0: none in flight)
    redirects,   \* redirects followed by the current (or last) _get_json call
    attempts,    \* GET attempts sent by the current (or last) _get_json call
    lastStatus,  \* HTTP status of the last attempt (0: none yet)
    fetches,     \* _get_json calls issued by this operation
    liveCalls,   \* get_current_rate calls made from inside get_monthly_rates
    failure,     \* exception raised by the fetcher: "none" | "retry" | "http" | "format"
    latestData,  \* rates[target] of the last decoded /latest payload
    seriesData,  \* the decoded time-series payload: day -> entry
    keysData,    \* the decoded /currencies payload: its keys in upstream order
    result_acc,  \* get_monthly_rates: `result` so far
    last_val,    \* get_monthly_rates: `last_val`
    rate,        \* POST /convert: local `rate`
    result,      \* POST /convert: local `result`
    sessionDoc,  \* POST /convert: user_id of validate_session's local `session` (0: None)
    outcome,     \* "pending" | "returned" | "raised"
    retDec,      \* returned Decimal (get_current_rate, get_currency_conversion_result)
    retSeries,   \* returned list (get_monthly_rates)
    retCodes,    \* returned list (get_supported_currencies)
    retTrend,    \* returned int (analyze_rate_trend)
    response,    \* POST /convert: the JSON response [rate, result]
    users,       \* the collection `users`, in insertion order
    signups,     \* POST /signup requests between users.find_one and users.insert_one
    logins,      \* POST /login requests between users.find_one and sessions.insert_one
    sessions,    \* the collection `sessions`
    deleting,    \* DELETE /record requests between two of their round trips
    records      \* the collection `records`, in insertion order

vars == <<pc, op, base, target, amount, session, rates, req, retryTotal, redirects,
          attempts, lastStatus, fetches, liveCalls, failure, latestData, seriesData,
          keysData, result_acc, last_val, rate, result, sessionDoc, outcome, retDec,
          retSeries, retCodes, retTrend, response, users, signups, logins, sessions,
          deleting, records>>

----------------------------------------------------------------------------
(* Bounds of the model *)

\* redirects the upstream answers with during one _get_json call
MaxRedirects == 1
\* most documents of `users`, stored or about to be
MaxUsers == 2
\* most documents of `sessions`, stored or about to be
MaxSessions == 2
\* most DELETE /record requests between two of their round trips
MaxDeleting == 2
\* longest list handed to analyze_rate_trend
MaxSeries == 3
\* most keys in the /currencies mapping
MaxKeys == 2

(* Program constants *)

\* Retry(total=3)
RetryTotal == 3
\* range(30), [Decimal("1")] * 30, timedelta(days=29)
WindowDays == 30
\* Decimal("0.0001")
QuantExp == -4
\* _raise_for_status_verbose: 400 <= resp.status_code
ErrorStatus == 400

StatusForcelist == {429, 500, 502, 503, 504}

\* Retry(...) leaves respect_retry_after_header at its default: a Retry-After
\* header is honoured on these statuses (Retry.RETRY_AFTER_STATUS_CODES)
RetryAfterStatusCodes == {413, 429, 503}

\* _SESSION.get(...) leaves allow_redirects at its default: an answer of one of
\* these statuses that carries a Location header is followed
RedirectStatuses == {301, 302, 303, 307, 308}

----------------------------------------------------------------------------
(* decimal.Decimal *)

RECURSIVE Pow10(_)
Pow10(n) == IF n <= 0 THEN 1 ELSE 10 * Pow10(n - 1)

Abs(x) == IF x < 0 THEN -x ELSE x
Sign(x) == IF x < 0 THEN -1 ELSE IF x > 0 THEN 1 ELSE 0
Min(a, b) == IF a < b THEN a ELSE b

Dec(c, e) == [c |-> c, e |-> e]

\* Python's None where a Decimal is expected (no Decimal here has a positive exponent)
None == [c |-> 0, e |-> 1]

\* the integer d * 10^(-e0), for e0 <= d.e
Scaled(d, e0) == d.c * Pow10(d.e - e0)

\* numeric comparison of two Decimals (Decimal.__eq__, __lt__)
DecEq(a, b) == LET e0 == Min(a.e, b.e) IN Scaled(a, e0) = Scaled(b, e0)
DecLt(a, b) == LET e0 == Min(a.e, b.e) IN Scaled(a, e0) < Scaled(b, e0)

DecSub(a, b) == LET e0 == Min(a.e, b.e) IN Dec(Scaled(a, e0) - Scaled(b, e0), e0)
DecMul(a, b) == Dec(a.c * b.c, a.e + b.e)
DecAbs(a) == Dec(Abs(a.c), a.e)

\* Decimal.quantize(Decimal("0.0001")) under the default ROUND_HALF_EVEN; the
\* faulty variant rounds a tie away from zero (ROUND_HALF_UP)
QuantizeHalfUp(d) ==
    IF d.e >= QuantExp THEN Dec(d.c * Pow10(d.e - QuantExp), QuantExp)
    ELSE LET m == Pow10(QuantExp - d.e)
             q == Abs(d.c) \div m
             r == Abs(d.c) % m
         IN  Dec(Sign(d.c) * (IF 2 * r >= m THEN q + 1 ELSE q), QuantExp)

Quantize(d) ==
    IF d.e >= QuantExp THEN Dec(d.c * Pow10(d.e - QuantExp), QuantExp)
    ELSE LET m == Pow10(QuantExp - d.e)
             q == Abs(d.c) \div m
             r == Abs(d.c) % m
             up == 2 * r > m \/ (2 * r = m /\ q % 2 = 1)
         IN  Dec(Sign(d.c) * (IF up THEN q + 1 ELSE q), QuantExp)

----------------------------------------------------------------------------
(* JSON numbers and _to_decimal *)

\* a JSON number as json.loads yields it: an int, or a float written c * 10^e
JInt(c) == [k |-> "int", c |-> c, e |-> 0]
JFloat(c, e) == [k |-> "float", c |-> c, e |-> e]
\* the key is missing from the object (dict.get gives None, `target in obj` is False)
Absent == [k |-> "absent", c |-> 0, e |-> 0]

\* drop the trailing zeros of the coefficient
RECURSIVE Strip(_)
Strip(d) == IF d.c # 0 /\ d.e < 0 /\ d.c % 10 = 0 THEN Strip(Dec(d.c \div 10, d.e + 1))
            ELSE IF d.c = 0 THEN Dec(0, 0) ELSE d

\* repr(float): the shortest digits that round-trip, always with a fractional part
\* ("2.0", "1.1" for the literal 1.10)
Repr(c, e) == LET s == Strip(Dec(c, e)) IN IF s.e = 0 THEN Dec(s.c * 10, -1) ELSE s

\* _to_decimal: Decimal(str(x)) for an int, Decimal(repr(x)) for a float
ToDecimal(x) == IF x.k = "int" THEN Dec(x.c, 0) ELSE Repr(x.c, x.e)

\* float(d): the scale is lost, the value kept (the values here have far fewer than
\* 15 significant digits, so distinct values give distinct floats)
ToFloat(d) == Strip(d)

----------------------------------------------------------------------------
(* Currency codes: strings as tuples of characters *)

\* ord(ch) for the letters used
Ord(ch) ==
    CASE ch = "B" -> 66 [] ch = "D" -> 68 [] ch = "E" -> 69 [] ch = "G" -> 71
      [] ch = "P" -> 80 [] ch = "R" -> 82 [] ch = "S" -> 83 [] ch = "U" -> 85
      [] ch = "d" -> 100 [] ch = "e" -> 101 [] ch = "r" -> 114 [] ch = "s" -> 115
      [] ch = "u" -> 117

UpperChar(ch) ==
    CASE ch = "d" -> "D" [] ch = "e" -> "E" [] ch = "r" -> "R" [] ch = "s" -> "S"
      [] ch = "u" -> "U" [] OTHER -> ch

\* str.upper()
Upper(s) == [i \in 1..Len(s) |-> UpperChar(s[i])]

\* str.__lt__: lexicographic by code point
RECURSIVE StrLt(_, _)
StrLt(a, b) ==
    IF b = <<>> THEN FALSE
    ELSE IF a = <<>> THEN TRUE
    ELSE IF Ord(Head(a)) # Ord(Head(b)) THEN Ord(Head(a)) < Ord(Head(b))
    ELSE StrLt(Tail(a), Tail(b))

\* sorted(): stable, ascending, keeps equal elements
RECURSIVE Insert(_, _)
Insert(x, s) ==
    IF s = <<>> THEN <<x>>
    ELSE IF StrLt(x, Head(s)) THEN <<x>> \o s
    ELSE <<Head(s)>> \o Insert(x, Tail(s))

RECURSIVE Sorted(_)
Sorted(s) == IF s = <<>> THEN <<>> ELSE Insert(s[Len(s)], Sorted(SubSeq(s, 1, Len(s) - 1)))

USD == <<"U", "S", "D">>
usd == <<"u", "s", "d">>
EUR == <<"E", "U", "R">>
eUr == <<"e", "U", "r">>
GBP == <<"G", "B", "P">>

\* codes a caller passes
Codes == {USD, usd, EUR}
\* keys the /currencies mapping may hold (a JSON object's keys are distinct strings)
KeyCodes == {USD, usd, EUR, eUr, GBP}

\* base == target after .upper(); the faulty variant compares the arguments as passed
SameCurrencyRaw(b, t) == b = t

SameCurrency(b, t) == Upper(b) = Upper(t)

----------------------------------------------------------------------------
(* get_supported_currencies *)

\* sorted([k.upper() for k in data.keys()])
SupportedFromKeys(keys) == Sorted([i \in 1..Len(keys) |-> Upper(keys[i])])

----------------------------------------------------------------------------
(* get_current_rate, get_currency_conversion_result *)

\* data.get("rates", {}).get(target): Absent stands for None
\* faulty variant: a /latest answer that names no rate gives the default rate 1
RateOrDefault(entry) == IF entry.k = "absent" THEN Dec(1, 0) ELSE ToDecimal(entry)

\* `if rate is None: raise KeyError`, else _to_decimal(rate); None marks the raise
RateFromLatest(entry) == IF entry.k = "absent" THEN None ELSE ToDecimal(entry)

\* (amount * rate).quantize(Decimal("0.0001"))
ConversionResult(a, r) == Quantize(DecMul(a, r))

----------------------------------------------------------------------------
(* analyze_rate_trend: 0 up, 1 down, 2 flat *)

\* (last - first) / first * 100 kept as the exact fraction n / d with d > 0.
\* decimal rounds the quotient to 28 digits, which cannot move it across 0 or 0.1
\* for operands of so few digits.
Change(first, last) ==
    LET diff == DecMul(DecSub(last, first), Dec(100, 0))
        e0   == Min(diff.e, first.e)
        n    == Scaled(diff, e0)
        d    == Scaled(first, e0)
    IN  IF d < 0 THEN [n |-> -n, d |-> -d] ELSE [n |-> n, d |-> d]

\* faulty variant: a change of exactly 0.1 percent is classified flat
AnalyzeRateTrendLe(rs) ==
    IF Len(rs) < 2 THEN 2
    ELSE LET first == rs[1]
             last  == rs[Len(rs)]
         IN  IF DecEq(first, Dec(0, 0)) THEN 2
             ELSE LET change == Change(first, last)
                  IN  IF Abs(change.n) * 10 <= change.d THEN 2
                      ELSE IF change.n > 0 THEN 0 ELSE 1

AnalyzeRateTrend(rs) ==
    IF Len(rs) < 2 THEN 2
    ELSE LET first == rs[1]
             last  == rs[Len(rs)]
         IN  IF DecEq(first, Dec(0, 0)) THEN 2
             ELSE LET change == Change(first, last)
                  IN  \* abs(change) < Decimal("0.1")
                      IF Abs(change.n) * 10 < change.d THEN 2
                      ELSE IF change.n > 0 THEN 0 ELSE 1

----------------------------------------------------------------------------
(* get_monthly_rates *)

\* day i stands for the date start + i days, start = today - 29 days
Window == 0..(WindowDays - 1)

\* {d: _to_decimal(obj[target]) for d, obj in rates.items() if target in obj}
RateMap(data) ==
    [d \in {x \in DOMAIN data : data[x].k # "absent"} |-> ToDecimal(data[d])]

\* The loop `for i in range(30)` from day i on, with `last_val` lv and `result` acc.
\* It runs until it ends or reaches the call get_current_rate(base, target), where
\* it stops with need = TRUE; Seeded resumes it with the value returned.
\* faulty variant: the loop stops one day short
RECURSIVE WalkShort(_, _, _, _)
WalkShort(i, lv, acc, rm) ==
    IF i >= WindowDays - 1 THEN [acc |-> acc, lv |-> lv, need |-> FALSE]
    ELSE IF i \in DOMAIN rm THEN WalkShort(i + 1, rm[i], Append(acc, rm[i]), rm)
    ELSE IF lv = None THEN [acc |-> acc, lv |-> lv, need |-> TRUE]
    ELSE WalkShort(i + 1, lv, Append(acc, lv), rm)

\* faulty variant: every day the upstream omits asks for the live rate
RECURSIVE WalkAlwaysLive(_, _, _, _)
WalkAlwaysLive(i, lv, acc, rm) ==
    IF i >= WindowDays THEN [acc |-> acc, lv |-> lv, need |-> FALSE]
    ELSE IF i \in DOMAIN rm THEN WalkAlwaysLive(i + 1, rm[i], Append(acc, rm[i]), rm)
    ELSE [acc |-> acc, lv |-> lv, need |-> TRUE]

\* faulty variant: a reported rate is appended but not kept as last_val
RECURSIVE WalkNoAdopt(_, _, _, _)
WalkNoAdopt(i, lv, acc, rm) ==
    IF i >= WindowDays THEN [acc |-> acc, lv |-> lv, need |-> FALSE]
    ELSE IF i \in DOMAIN rm
         THEN WalkNoAdopt(i + 1, IF lv = None THEN rm[i] ELSE lv, Append(acc, rm[i]), rm)
    ELSE IF lv = None THEN [acc |-> acc, lv |-> lv, need |-> TRUE]
    ELSE WalkNoAdopt(i + 1, lv, Append(acc, lv), rm)

RECURSIVE Walk(_, _, _, _)
Walk(i, lv, acc, rm) ==
    IF i >= WindowDays THEN [acc |-> acc, lv |-> lv, need |-> FALSE]
    ELSE IF i \in DOMAIN rm THEN Walk(i + 1, rm[i], Append(acc, rm[i]), rm)
    ELSE IF lv = None THEN [acc |-> acc, lv |-> lv, need |-> TRUE]
    ELSE Walk(i + 1, lv, Append(acc, lv), rm)

\* last_val = get_current_rate(base, target); result.append(last_val); next day
Seeded(v, acc, rm) == Walk(Len(acc) + 1, v, Append(acc, v), rm)

\* [Decimal("1")] * 30
OnesSeries == [i \in 1..WindowDays |-> Dec(1, 0)]

----------------------------------------------------------------------------
(* Inputs and upstream answers *)

\* an upstream answer: its status, and whether it carries a Retry-After and a
\* Location header
Answer(s, ra, loc) == [status |-> s, retryAfter |-> ra, location |-> loc]

UpstreamAnswers ==
    {Answer(200, FALSE, FALSE), Answer(404, FALSE, FALSE), Answer(503, FALSE, FALSE),
     Answer(413, TRUE, FALSE), Answer(413, FALSE, FALSE),
     Answer(302, FALSE, TRUE), Answer(302, FALSE, FALSE)}

\* rates[target] of a /latest payload
LatestEntries ==
    {JInt(2), JFloat(5, -1), JFloat(110, -2), JFloat(123455, -5), JFloat(123445, -5), Absent}

\* POST /convert: the codes, the amount and the rates of its two /latest payloads
ConvertPairs == {<<USD, usd>>, <<USD, EUR>>}
ConvertAmounts == {JInt(-1), JFloat(3, -1)}
ConvertEntries == {JInt(2), JFloat(5, -1), Absent}

\* the amount as it arrives in JSON, and as a Decimal
AmountsJson == {JInt(1), JInt(100), JInt(-1), JFloat(3, -1)}
Amounts == {ToDecimal(x) : x \in AmountsJson}

\* the dates a time-series payload reports: none, one, all, all but one, or the
\* business days
DateSets ==
    {{}, Window}
      \cup {{d} : d \in Window}
      \cup {Window \ {d} : d \in Window}
      \cup {{d \in Window : (d + ph) % 7 \notin {5, 6}} : ph \in 0..6}

\* rates[date] of a time-series payload
EntryAt(f, d) ==
    CASE f = "const"   -> JFloat(110, -2)
      [] f = "daily"   -> JFloat(100 + d, -2)
      [] f = "partial" -> IF d % 4 = 1 THEN Absent ELSE JInt(1 + (d % 3))

SeriesPayloads ==
    {[d \in S |-> EntryAt(f, d)] : S \in DateSets, f \in {"const", "daily", "partial"}}

\* key lists without a repeated key, of at most n keys
DistinctSeqs(n) ==
    {q \in UNION {[1..m -> KeyCodes] : m \in 0..n} :
        \A i, j \in 1..Len(q) : i # j => q[i] # q[j]}

\* a /currencies payload: a JSON object (its keys in order), or some other JSON value
CurrenciesPayloads ==
    {[dict |-> TRUE, keys |-> q] : q \in DistinctSeqs(MaxKeys)}
      \cup {[dict |-> FALSE, keys |-> <<>>]}

TrendValues ==
    {Dec(0, 0), Dec(1, 0), Dec(10009, -4), Dec(1001, -3), Dec(12, -1), Dec(8, -1), Dec(5, 0)}

TrendInputs == UNION {[1..n -> TrendValues] : n \in 0..MaxSeries}

----------------------------------------------------------------------------------------------------------------------------------------
(* Accounts: users, sessions and the inputs of the handlers that write them *)

Usernames == {"alice"}
\* passwords of a request; "long" stands for one of more than 64 characters, ""
\* for a missing or empty one
SignupPasswords == {"pw", "long"}
LoginPasswords == {"pw", "bad", "long", ""}
\* uuid.uuid4() for a user_id: the n-th user stored has id n.  For a session_id:
\* any id of SessionIds no stored session has.  0 is an id never handed out.
SessionIds == 1..MaxSessions
NewRecordId == "r1"
\* the session_id a request may carry: the ones handed out, and one that never was
SessionInputs == SessionIds \cup {0}
\* the record_id a DELETE /record carries: the one POST /convert hands out, before
\* the record is stored, while it is, or after it was deleted
RecordInputs == {NewRecordId}

\* len(password) > 64
TooLong(p) == p = "long"

\* hash_pw returned None
NoHash == <<"none", "">>

\* hash_pw: None for a password of more than 64 characters
HashPw(p) == IF TooLong(p) THEN NoHash ELSE <<"bcrypt", p>>

\* check_pw: False for a password of more than 64 characters and when checkpw fails
\* or raises (a stored password of None)
CheckPw(p, hashed) == ~TooLong(p) /\ hashed # NoHash /\ hashed = <<"bcrypt", p>>

\* validate_session returned None
NoUser == [user_id |-> 0, username |-> "", password |-> NoHash]

\* the first document of docs whose index is in hits
First(docs, hits, none) ==
    IF hits = {} THEN none ELSE docs[CHOOSE i \in hits : \A j \in hits : i <= j]

\* users.find_one({"username": u}), users.find_one({"user_id": id})
UserByName(u) == First(users, {i \in 1..Len(users) : users[i].username = u}, NoUser)

UserById(id) == First(users, {i \in 1..Len(users) : users[i].user_id = id}, NoUser)

\* sessions.find_one({"session_id": sid}): the user_id of the document, 0 for None
SessionUser(sid) ==
    IF \E s \in sessions : s.session_id = sid
    THEN (CHOOSE s \in sessions : s.session_id = sid).user_id
    ELSE 0

\* records.delete_one({"record_id": rid, "user_id": uid}): the first match goes
DeleteOne(docs, rid, uid) ==
    LET hits == {i \in 1..Len(docs) : docs[i].record_id = rid /\ docs[i].user_id = uid}
    IN  IF hits = {} THEN docs
        ELSE LET k == CHOOSE i \in hits : \A j \in hits : i <= j
             IN  [i \in 1..(Len(docs) - 1) |-> IF i < k THEN docs[i] ELSE docs[i + 1]]

----------------------------------------------------------------------------
(* State *)

NoData == [k |-> "nodata", c |-> 0, e |-> 0]
NoResponse == [rate |-> None, result |-> None]

argVars   == <<base, target, amount, session, rates>>
fetchVars == <<req, retryTotal, redirects, attempts, lastStatus, fetches, failure>>
dataVars  == <<latestData, seriesData, keysData>>
monthVars == <<result_acc, last_val, liveCalls>>
convVars  == <<rate, result, sessionDoc>>
storeVars == <<users, signups, logins, sessions, deleting, records>>
retVars   == <<retDec, retSeries, retCodes, retTrend, response, storeVars>>
fxVars    == <<pc, op, argVars, fetchVars, dataVars, monthVars, convVars, outcome,
               retDec, retSeries, retCodes, retTrend, response>>

Init ==
    /\ pc = "idle" /\ op = "none"
    /\ base = <<>> /\ target = <<>> /\ amount = None /\ session = NoUser /\ rates = <<>>
    /\ req = "none" /\ retryTotal = 0 /\ redirects = 0 /\ attempts = 0 /\ lastStatus = 0
    /\ fetches = 0 /\ liveCalls = 0 /\ failure = "none"
    /\ latestData = NoData /\ seriesData = <<>>
    /\ keysData = [dict |-> FALSE, keys |-> <<>>]
    /\ result_acc = <<>> /\ last_val = None /\ rate = None /\ result = None
    /\ sessionDoc = 0
    /\ outcome = "pending"
    /\ retDec = None /\ retSeries = <<>> /\ retCodes = <<>> /\ retTrend = -1
    /\ response = NoResponse
    /\ users = <<>> /\ signups = EmptyBag /\ logins = EmptyBag
    /\ sessions = {} /\ deleting = EmptyBag
    /\ records = <<>>

----------------------------------------------------------------------------
(* The fetcher: _SESSION.get under Retry(total=3, status_forcelist, GET) *)

\* Retry.is_retry for a GET that was answered: the status is in status_forcelist,
\* or retries are left and the answer carries Retry-After on one of the statuses
\* that honour it
IsRetry(ans, total) ==
    \/ ans.status \in StatusForcelist
    \/ total # 0 /\ ans.retryAfter /\ ans.status \in RetryAfterStatusCodes

\* Response.is_redirect: the session follows the answer with a new request
IsRedirect(ans) == ans.location /\ ans.status \in RedirectStatuses

\* Retry.is_exhausted after increment(): total < 0, so that
\* Retry(total=3) allows 3 retries after the first attempt
IsExhausted(total) == total < 0

\* _raise_for_status_verbose
RaisesForStatus(s) == ErrorStatus <= s

\* _get_json(...) is called: a fresh Retry budget for the request
StartFetch(endpoint) ==
    /\ pc' = "fetch" /\ req' = endpoint
    /\ retryTotal' = RetryTotal /\ redirects' = 0 /\ attempts' = 0 /\ lastStatus' = 0
    /\ fetches' = fetches + 1
    /\ UNCHANGED failure

\* the answer is neither retried nor followed: _SESSION.get returns it
Handed(ans) == ~IsRetry(ans, retryTotal) /\ ~IsRedirect(ans)

\* an attempt was answered with ans and _SESSION.get is over
Answered(ans) ==
    /\ attempts' = attempts + 1 /\ lastStatus' = ans.status
    /\ UNCHANGED <<req, retryTotal, redirects, fetches>>

\* the answer is handed to _get_json and decodes as JSON
Decodes(ans) == Handed(ans) /\ ~RaisesForStatus(ans.status)

\* an exception leaves the operation
Raise ==
    /\ pc' = "done" /\ outcome' = "raised"
    /\ UNCHANGED <<op, argVars, monthVars, convVars, retVars>>

\* a retryable answer with budget left: back off and send the GET again
AttemptRetried(ans) ==
    /\ pc = "fetch" /\ IsRetry(ans, retryTotal) /\ ~IsExhausted(retryTotal - 1)
    /\ retryTotal' = retryTotal - 1 /\ attempts' = attempts + 1
    /\ lastStatus' = ans.status
    /\ UNCHANGED <<pc, op, argVars, req, redirects, fetches, failure, dataVars,
                   monthVars, convVars, outcome, retVars>>

\* a retryable answer with the budget used up: MaxRetryError (RetryError)
AttemptExhausted(ans) ==
    /\ pc = "fetch" /\ IsRetry(ans, retryTotal) /\ IsExhausted(retryTotal - 1)
    /\ retryTotal' = retryTotal - 1 /\ attempts' = attempts + 1
    /\ lastStatus' = ans.status
    /\ failure' = "retry"
    /\ Raise
    /\ UNCHANGED <<req, redirects, fetches, dataVars>>

\* a redirect: the session sends a GET to the Location, which the adapter serves
\* with the Retry budget it was mounted with
AttemptRedirected(ans) ==
    /\ pc = "fetch" /\ ~IsRetry(ans, retryTotal) /\ IsRedirect(ans)
    /\ redirects < MaxRedirects
    /\ redirects' = redirects + 1 /\ retryTotal' = RetryTotal
    /\ attempts' = attempts + 1 /\ lastStatus' = ans.status
    /\ UNCHANGED <<pc, op, argVars, req, fetches, failure, dataVars, monthVars, convVars,
                   outcome, retVars>>

\* any other status >= 400: requests.HTTPError from _raise_for_status_verbose
AttemptHttpError(ans) ==
    /\ pc = "fetch" /\ Handed(ans) /\ RaisesForStatus(ans.status)
    /\ Answered(ans) /\ failure' = "http"
    /\ Raise
    /\ UNCHANGED dataVars

\* a body that is not JSON: ValueError
AttemptBadJson(ans) ==
    /\ pc = "fetch" /\ Decodes(ans)
    /\ Answered(ans) /\ failure' = "format"
    /\ Raise
    /\ UNCHANGED dataVars

----------------------------------------------------------------------------
(* get_current_rate *)

GetCurrentRate(b, t) ==
    /\ pc = "idle"
    /\ op' = "get_current_rate" /\ base' = b /\ target' = t
    /\ IF SameCurrency(b, t)
       THEN /\ pc' = "done" /\ outcome' = "returned" /\ retDec' = Dec(1, 0)
            /\ UNCHANGED fetchVars
       ELSE /\ StartFetch("latest")
            /\ UNCHANGED <<outcome, retDec>>
    /\ UNCHANGED <<amount, session, rates, dataVars, monthVars, convVars,
                   retSeries, retCodes, retTrend, response, storeVars>>

\* the /latest payload arrived
CurrentRateOk(ans, entry) ==
    /\ pc = "fetch" /\ op = "get_current_rate" /\ req = "latest" /\ Decodes(ans)
    /\ Answered(ans) /\ latestData' = entry
    /\ pc' = "done"
    /\ LET r == RateFromLatest(entry)
       IN  IF r = None
           THEN outcome' = "raised" /\ UNCHANGED retDec
           ELSE outcome' = "returned" /\ retDec' = r
    /\ UNCHANGED <<op, argVars, failure, seriesData, keysData, monthVars, convVars,
                   retSeries, retCodes, retTrend, response, storeVars>>

----------------------------------------------------------------------------
(* get_currency_conversion_result: `amount` is a Decimal *)

GetCurrencyConversionResult(b, t, a) ==
    /\ pc = "idle"
    /\ op' = "get_currency_conversion_result" /\ base' = b /\ target' = t /\ amount' = a
    /\ IF SameCurrency(b, t)
       THEN /\ pc' = "done" /\ outcome' = "returned"
            /\ retDec' = ConversionResult(a, Dec(1, 0))
            /\ UNCHANGED fetchVars
       ELSE /\ StartFetch("latest")
            /\ UNCHANGED <<outcome, retDec>>
    /\ UNCHANGED <<session, rates, dataVars, monthVars, convVars,
                   retSeries, retCodes, retTrend, response, storeVars>>

ConversionOk(ans, entry) ==
    /\ pc = "fetch" /\ op = "get_currency_conversion_result" /\ req = "latest"
    /\ Decodes(ans)
    /\ Answered(ans) /\ latestData' = entry
    /\ pc' = "done"
    /\ LET r == RateFromLatest(entry)
       IN  IF r = None
           THEN outcome' = "raised" /\ UNCHANGED retDec
           ELSE outcome' = "returned" /\ retDec' = ConversionResult(amount, r)
    /\ UNCHANGED <<op, argVars, failure, seriesData, keysData, monthVars, convVars,
                   retSeries, retCodes, retTrend, response, storeVars>>

----------------------------------------------------------------------------
(* get_supported_currencies *)

GetSupportedCurrencies ==
    /\ pc = "idle"
    /\ op' = "get_supported_currencies"
    /\ StartFetch("currencies")
    /\ UNCHANGED <<argVars, dataVars, monthVars, convVars, outcome, retVars>>

CurrenciesOk(ans, data) ==
    /\ pc = "fetch" /\ op = "get_supported_currencies" /\ req = "currencies"
    /\ Decodes(ans)
    /\ Answered(ans) /\ keysData' = data
    /\ pc' = "done"
    /\ IF data.dict
       THEN outcome' = "returned" /\ retCodes' = SupportedFromKeys(data.keys)
       ELSE outcome' = "raised" /\ UNCHANGED retCodes
    /\ UNCHANGED <<op, argVars, failure, latestData, seriesData, monthVars, convVars,
                   retDec, retSeries, retTrend, response, storeVars>>

----------------------------------------------------------------------------
(* get_monthly_rates *)

GetMonthlyRates(b, t) ==
    /\ pc = "idle"
    /\ op' = "get_monthly_rates" /\ base' = b /\ target' = t
    /\ IF SameCurrency(b, t)
       THEN /\ pc' = "done" /\ outcome' = "returned" /\ retSeries' = OnesSeries
            /\ UNCHANGED fetchVars
       ELSE /\ StartFetch("series")
            /\ UNCHANGED <<outcome, retSeries>>
    /\ UNCHANGED <<amount, session, rates, dataVars, monthVars, convVars,
                   retDec, retCodes, retTrend, response, storeVars>>

\* The loop stopped at w: either `return result`, or the call
\* get_current_rate(base, target), whose codes differ, so that it fetches /latest.
AfterWalk(w, ans) ==
    /\ result_acc' = w.acc /\ last_val' = w.lv
    /\ IF w.need
       THEN /\ liveCalls' = liveCalls + 1
            /\ StartFetch("latest")
            /\ UNCHANGED <<outcome, retSeries>>
       ELSE /\ pc' = "done" /\ outcome' = "returned" /\ retSeries' = w.acc
            /\ Answered(ans)
            /\ UNCHANGED <<liveCalls, failure>>

\* the time-series payload arrived: build rate_map and run the loop
SeriesOk(ans, data) ==
    /\ pc = "fetch" /\ op = "get_monthly_rates" /\ req = "series" /\ Decodes(ans)
    /\ seriesData' = data
    /\ AfterWalk(Walk(0, None, <<>>, RateMap(data)), ans)
    /\ UNCHANGED <<op, argVars, latestData, keysData, convVars,
                   retDec, retCodes, retTrend, response, storeVars>>

\* the /latest payload of the live call arrived: the loop goes on from the same day
MonthlySeedOk(ans, entry) ==
    /\ pc = "fetch" /\ op = "get_monthly_rates" /\ req = "latest" /\ Decodes(ans)
    /\ latestData' = entry
    /\ LET r == RateFromLatest(entry)
       IN  IF r = None
           THEN /\ pc' = "done" /\ outcome' = "raised"
                /\ Answered(ans)
                /\ UNCHANGED <<monthVars, failure, retSeries>>
           ELSE AfterWalk(Seeded(r, result_acc, RateMap(seriesData)), ans)
    /\ UNCHANGED <<op, argVars, seriesData, keysData, convVars,
                   retDec, retCodes, retTrend, response, storeVars>>

----------------------------------------------------------------------------
(* analyze_rate_trend *)

AnalyzeRateTrendCall(rs) ==
    /\ pc = "idle"
    /\ op' = "analyze_rate_trend" /\ rates' = rs
    /\ pc' = "done" /\ outcome' = "returned" /\ retTrend' = AnalyzeRateTrend(rs)
    /\ UNCHANGED <<base, target, amount, session, fetchVars, dataVars, monthVars, convVars,
                   retDec, retSeries, retCodes, response, storeVars>>

----------------------------------------------------------------------------
(* POST /convert *)

\* lines 183-207 once `result` is known: with a session the handler goes on to
\* records.insert_one, without one it returns the response
Finish(user, r, res) ==
    IF user # NoUser
    THEN /\ pc' = "store"
         /\ UNCHANGED <<outcome, response>>
    ELSE /\ pc' = "done" /\ outcome' = "returned"
         /\ response' = [rate |-> ToFloat(r), result |-> ToFloat(res)]

\* lines 167-181 once validate_session returned user: for equal codes lines 180
\* and 181 return at once, else line 180 fetches /latest
AfterValidate(user, b, t, a) ==
    IF SameCurrency(b, t)
    THEN /\ rate' = Dec(1, 0)
         /\ result' = ConversionResult(a, Dec(1, 0))
         /\ Finish(user, Dec(1, 0), ConversionResult(a, Dec(1, 0)))
         /\ UNCHANGED fetchVars
    ELSE /\ StartFetch("latest")
         /\ UNCHANGED <<rate, result, outcome, response>>

\* line 163, validate_session: sessions.find_one answered.  Without a session
\* document validate_session returns None; with one it goes on to users.find_one.
ConvertCurrency(b, t, aj, sid) ==
    /\ pc = "idle"
    /\ op' = "convert_currency" /\ base' = b /\ target' = t
    /\ amount' = ToDecimal(aj)
    /\ sessionDoc' = SessionUser(sid)
    /\ IF SessionUser(sid) = 0
       THEN /\ session' = NoUser
            /\ AfterValidate(NoUser, b, t, ToDecimal(aj))
       ELSE /\ pc' = "user"
            /\ UNCHANGED <<session, fetchVars, rate, result, outcome, response>>
    /\ UNCHANGED <<rates, dataVars, monthVars, retDec, retSeries, retCodes, retTrend,
                   storeVars>>

\* line 89: users.find_one answered; validate_session returns it
ConvertUser ==
    /\ pc = "user" /\ op = "convert_currency"
    /\ session' = UserById(sessionDoc)
    /\ AfterValidate(UserById(sessionDoc), base, target, amount)
    /\ UNCHANGED <<op, base, target, amount, rates, sessionDoc, dataVars, monthVars,
                   retDec, retSeries, retCodes, retTrend, storeVars>>

\* line 180: the payload of get_current_rate arrived; line 181 fetches /latest again
ConvertRateOk(ans, entry) ==
    /\ pc = "fetch" /\ op = "convert_currency" /\ rate = None /\ Decodes(ans)
    /\ latestData' = entry
    /\ LET r == RateFromLatest(entry)
       IN  IF r = None
           THEN /\ pc' = "done" /\ outcome' = "raised"
                /\ Answered(ans)
                /\ UNCHANGED <<rate, failure>>
           ELSE /\ rate' = r
                /\ StartFetch("latest")
                /\ UNCHANGED outcome
    /\ UNCHANGED <<op, argVars, seriesData, keysData, monthVars, result, sessionDoc,
                   retVars>>

\* line 181: the payload of get_currency_conversion_result's fetch arrived
ConvertResultOk(ans, entry) ==
    /\ pc = "fetch" /\ op = "convert_currency" /\ rate # None /\ Decodes(ans)
    /\ Answered(ans) /\ latestData' = entry
    /\ LET r == RateFromLatest(entry)
       IN  IF r = None
           THEN /\ pc' = "done" /\ outcome' = "raised"
                /\ UNCHANGED <<result, response>>
           ELSE /\ result' = ConversionResult(amount, r)
                /\ Finish(session, rate, ConversionResult(amount, r))
    /\ UNCHANGED <<op, argVars, failure, seriesData, keysData, monthVars, rate,
                   sessionDoc, retDec, retSeries, retCodes, retTrend, storeVars>>

\* lines 186-207: records.insert_one answered, then the response; both carry
\* float(amount), float(rate), float(result)
Respond ==
    /\ pc = "store" /\ op = "convert_currency"
    /\ pc' = "done" /\ outcome' = "returned"
    /\ response' = [rate |-> ToFloat(rate), result |-> ToFloat(result)]
    /\ records' = Append(records, [record_id |-> NewRecordId,
                                   user_id   |-> session.user_id,
                                   amount    |-> ToFloat(amount),
                                   rate      |-> ToFloat(rate),
                                   result    |-> ToFloat(result)])
    /\ UNCHANGED <<op, argVars, fetchVars, dataVars, monthVars, convVars,
                   retDec, retSeries, retCodes, retTrend,
                   users, signups, logins, sessions, deleting>>

----------------------------------------------------------------------------
(* POST /signup, POST /login, DELETE /login, DELETE /record *)

\* lines 97-102: users.find_one answered; 409 when it found the username, else
\* the request goes on to its insert
SignupFind(u, p) ==
    /\ IF UserByName(u) # NoUser
       THEN UNCHANGED signups
       ELSE /\ Len(users) + BagCardinality(signups) < MaxUsers
            /\ signups' = signups (+) SetToBag({[username |-> u, password |-> p]})
    /\ UNCHANGED <<fxVars, users, logins, sessions, deleting, records>>

\* lines 104-111: users.insert_one under a new user_id
SignupInsert(rq) ==
    /\ BagIn(rq, signups)
    /\ users' = Append(users, [user_id  |-> Len(users) + 1,
                               username |-> rq.username,
                               password |-> HashPw(rq.password)])
    /\ signups' = signups (-) SetToBag({rq})
    /\ UNCHANGED <<fxVars, logins, sessions, deleting, records>>

\* lines 119-131: 400 without a username or a password (no round trip); else
\* users.find_one answered: 401 for an unknown user or a password that does not
\* check, else the request goes on to its insert
LoginFind(u, p) ==
    /\ IF u = "" \/ p = ""
       THEN UNCHANGED logins
       ELSE IF UserByName(u) = NoUser \/ ~CheckPw(p, UserByName(u).password)
       THEN UNCHANGED logins
       ELSE /\ Cardinality(sessions) + BagCardinality(logins) < MaxSessions
            /\ logins' = logins (+) SetToBag({[user_id |-> UserByName(u).user_id]})
    /\ UNCHANGED <<fxVars, users, signups, sessions, deleting, records>>

\* lines 133-143: sessions.insert_one under a new session_id
LoginInsert(rq, sid) ==
    /\ BagIn(rq, logins)
    /\ \A s \in sessions : s.session_id # sid
    /\ sessions' = sessions \cup {[session_id |-> sid, user_id |-> rq.user_id]}
    /\ logins' = logins (-) SetToBag({rq})
    /\ UNCHANGED <<fxVars, users, signups, deleting, records>>

Logout(sid) ==
    /\ sessions' = {s \in sessions : s.session_id # sid}
    /\ UNCHANGED <<fxVars, users, signups, logins, deleting, records>>

\* line 248, validate_session: sessions.find_one answered; without a session
\* document 401, else the request goes on to users.find_one
DeleteValidate(sid, rid) ==
    /\ IF SessionUser(sid) = 0
       THEN UNCHANGED deleting
       ELSE /\ BagCardinality(deleting) < MaxDeleting
            /\ deleting' = deleting (+) SetToBag({[stage     |-> "user",
                                                   user_id   |-> SessionUser(sid),
                                                   record_id |-> rid]})
    /\ UNCHANGED <<fxVars, users, signups, logins, sessions, records>>

\* lines 89, 249-252: users.find_one answered; 401 without a user, else the
\* request goes on to its delete_one
DeleteUser(rq) ==
    /\ BagIn(rq, deleting) /\ rq.stage = "user"
    /\ deleting' = IF UserById(rq.user_id) = NoUser
                   THEN deleting (-) SetToBag({rq})
                   ELSE (deleting (-) SetToBag({rq}))
                          (+) SetToBag({[stage     |-> "delete",
                                         user_id   |-> UserById(rq.user_id).user_id,
                                         record_id |-> rq.record_id]})
    /\ UNCHANGED <<fxVars, users, signups, logins, sessions, records>>

\* lines 253-258: the record of that id and of the user found is deleted
DeleteRecord(rq) ==
    /\ BagIn(rq, deleting) /\ rq.stage = "delete"
    /\ records' = DeleteOne(records, rq.record_id, rq.user_id)
    /\ deleting' = deleting (-) SetToBag({rq})
    /\ UNCHANGED <<fxVars, users, signups, logins, sessions>>

----------------
\* the operation o waits for the answer of endpoint r
Fetching(o, r) == pc = "fetch" /\ op = o /\ req = r

\* the operations of src/fx_api.py, called directly
Next ==
    \/ pc = "idle" /\ \E b, t \in Codes : GetCurrentRate(b, t)
    \/ pc = "idle" /\ \E b, t \in Codes, a \in Amounts : GetCurrencyConversionResult(b, t, a)
    \/ GetSupportedCurrencies
    \/ pc = "idle" /\ \E b, t \in Codes : GetMonthlyRates(b, t)
    \/ pc = "idle" /\ \E rs \in TrendInputs : AnalyzeRateTrendCall(rs)
    \/ \E ans \in UpstreamAnswers : AttemptRetried(ans)
    \/ \E ans \in UpstreamAnswers : AttemptExhausted(ans)
    \/ \E ans \in UpstreamAnswers : AttemptRedirected(ans)
    \/ \E ans \in UpstreamAnswers : AttemptHttpError(ans)
    \/ \E ans \in UpstreamAnswers : AttemptBadJson(ans)
    \/ Fetching("get_current_rate", "latest")
         /\ \E ans \in UpstreamAnswers, e \in LatestEntries : CurrentRateOk(ans, e)
    \/ Fetching("get_currency_conversion_result", "latest")
         /\ \E ans \in UpstreamAnswers, e \in LatestEntries : ConversionOk(ans, e)
    \/ Fetching("get_supported_currencies", "currencies")
         /\ \E ans \in UpstreamAnswers, d \in CurrenciesPayloads : CurrenciesOk(ans, d)
    \/ Fetching("get_monthly_rates", "series")
         /\ \E ans \in UpstreamAnswers :
               Decodes(ans) /\ \E d \in SeriesPayloads : SeriesOk(ans, d)
    \/ Fetching("get_monthly_rates", "latest")
         /\ \E ans \in UpstreamAnswers, e \in LatestEntries : MonthlySeedOk(ans, e)

Spec == Init /\ [][Next]_vars

\* the handlers of src/app.py that read or write users, sessions and records:
\* one POST /convert, among any number of the other requests
AppNext ==
    \/ pc = "idle" /\ \E bt \in ConvertPairs, aj \in ConvertAmounts, sid \in SessionInputs :
                         ConvertCurrency(bt[1], bt[2], aj, sid)
    \/ \E ans \in UpstreamAnswers : AttemptRetried(ans)
    \/ \E ans \in UpstreamAnswers : AttemptExhausted(ans)
    \/ \E ans \in UpstreamAnswers : AttemptRedirected(ans)
    \/ \E ans \in UpstreamAnswers : AttemptHttpError(ans)
    \/ \E ans \in UpstreamAnswers : AttemptBadJson(ans)
    \/ Fetching("convert_currency", "latest")
         /\ \E ans \in UpstreamAnswers, e \in ConvertEntries : ConvertRateOk(ans, e)
    \/ Fetching("convert_currency", "latest")
         /\ \E ans \in UpstreamAnswers, e \in ConvertEntries : ConvertResultOk(ans, e)
    \/ ConvertUser
    \/ Respond
    \/ \E u \in Usernames, p \in SignupPasswords : SignupFind(u, p)
    \/ \E rq \in BagToSet(signups) : SignupInsert(rq)
    \/ \E u \in Usernames \cup {""}, p \in LoginPasswords : LoginFind(u, p)
    \/ \E rq \in BagToSet(logins), sid \in SessionIds : LoginInsert(rq, sid)
    \/ \E sid \in SessionInputs : Logout(sid)
    \/ \E sid \in SessionInputs, rid \in RecordInputs : DeleteValidate(sid, rid)
    \/ \E rq \in BagToSet(deleting) : DeleteUser(rq)
    \/ \E rq \in BagToSet(deleting) : DeleteRecord(rq)

AppSpec == Init /\ [][AppNext]_vars

----------------------------------------------------------------------------
(* Properties *)

\* the window days for which the time-series payload holds a rate of the target
Reported == {d \in DOMAIN seriesData : d \in Window /\ seriesData[d].k # "absent"}

\* the number a JSON entry denotes
JsonValue(x) == Dec(x.c, x.e)

MonthlyReturned ==
    op = "get_monthly_rates" /\ outcome = "returned" /\ Upper(base) # Upper(target)

\* nothing was returned
NoValue == retDec = None /\ retSeries = <<>> /\ retCodes = <<>>

\* c * 10^-4 is p rounded to 4 places, a tie going to the even digit
RoundsHalfEven(p, c) ==
    IF p.e >= QuantExp THEN c = p.c * Pow10(p.e - QuantExp)
    ELSE LET m == Pow10(QuantExp - p.e)
             dist == Abs(c * m - p.c)
         IN  2 * dist <= m /\ (2 * dist = m => c % 2 = 0)

\* C1: a get_monthly_rates call that returns gives exactly 30 entries, none of them
\* None, whatever subset of the window the upstream reported (all, some, none), and
\* the entry of a reported date sits at that date's position, oldest first.
C1_ThirtyEntriesNoGap ==
    (op = "get_monthly_rates" /\ outcome = "returned") =>
        /\ Len(retSeries) = WindowDays
        /\ \A i \in 1..Len(retSeries) : retSeries[i] # None
        /\ \A d \in Reported :
              d + 1 <= Len(retSeries) /\ DecEq(retSeries[d + 1], JsonValue(seriesData[d]))

\* C1 witness: business-day data (weekend gaps) and a full series returned
C1_Witness ==
    /\ MonthlyReturned
    /\ Reported # {} /\ Reported # Window /\ 0 \notin Reported
    /\ Cardinality(Reported) > 2 /\ Cardinality(Reported) < WindowDays - 1
    /\ Len(retSeries) = WindowDays

\* C2 as stated: at most one live get_current_rate call per get_monthly_rates call,
\* made only when the upstream reported no date of the window at all; none when the
\* upstream reported at least one date.
C2_LiveOnlyWhenNoDataAtAll ==
    op = "get_monthly_rates" =>
        /\ liveCalls <= 1
        /\ (liveCalls >= 1 => Reported = {})
        /\ (Reported # {} => liveCalls = 0)

\* C2 amended: the live call is made exactly when the upstream reported no rate for
\* the first day of the window, and then once; when the first day is reported no
\* live call is made.
C2_LiveIffFirstDayMissing ==
    op = "get_monthly_rates" =>
        /\ liveCalls <= 1
        /\ (liveCalls >= 1 => 0 \notin Reported)
        /\ (MonthlyReturned => liveCalls = (IF 0 \in Reported THEN 0 ELSE 1))

\* C2 witness: the upstream reported dates, not the first one; one live call was made
C2_Witness ==
    MonthlyReturned /\ Reported # {} /\ 0 \notin Reported /\ liveCalls = 1

\* C3: for every day i in 1..29 of a returned series, the entry is the rate the
\* upstream reported for that day, or else the entry of day i-1.
C3_ReportedOrCarried ==
    MonthlyReturned =>
        /\ Len(retSeries) = WindowDays
        /\ \A i \in 1..(WindowDays - 1) :
              IF i \in Reported
              THEN DecEq(retSeries[i + 1], JsonValue(seriesData[i]))
              ELSE retSeries[i + 1] = retSeries[i]

\* C3 witness: a gap day after a reported day, whose rate differs from the day before
C3_Witness ==
    /\ MonthlyReturned
    /\ \E i \in 2..(WindowDays - 1) :
          /\ i \notin Reported /\ (i - 1) \in Reported /\ (i - 2) \in Reported
          /\ retSeries[i] # retSeries[i - 1]
          /\ retSeries[i + 1] = retSeries[i]

\* C4: when base and target are the same code after upper-casing, get_current_rate
\* returns Decimal 1 and get_monthly_rates 30 copies of it, with no upstream fetch.
C4_SameCurrencyNoFetch ==
    (op \in {"get_current_rate", "get_monthly_rates"} /\ Upper(base) = Upper(target)) =>
        /\ pc = "done" /\ outcome = "returned"
        /\ fetches = 0 /\ attempts = 0
        /\ (op = "get_current_rate" => retDec = Dec(1, 0))
        /\ (op = "get_monthly_rates" =>
              /\ Len(retSeries) = WindowDays
              /\ \A i \in 1..Len(retSeries) : retSeries[i] = Dec(1, 0))

\* C4 witness: the codes differ only in letter case
C4_Witness ==
    /\ op = "get_monthly_rates" /\ base # target /\ Upper(base) = Upper(target)
    /\ pc = "done" /\ fetches = 0

\* C5 as stated: a call that follows no redirect sends at most 3 GET attempts;
\* after three 503 answers it has failed (no 4th attempt is made).
C5_ThreeAttemptsInAll ==
    redirects = 0 =>
        /\ attempts <= RetryTotal
        /\ (lastStatus = 503 /\ attempts = RetryTotal) =>
              (pc = "done" /\ outcome = "raised")

\* C6: analyze_rate_trend never fails and is decided by the first and last elements:
\* flat (2) for fewer than 2 elements, a first element 0, or a change of less than
\* 0.1 percent in absolute value; else up (0) for a positive change, down (1) for a
\* negative one.
C6_TrendByEndpoints ==
    (op = "analyze_rate_trend" /\ pc = "done") =>
        /\ outcome = "returned"
        /\ LET n  == Len(rates)
               e0 == IF n = 0 THEN 0 ELSE Min(rates[1].e, rates[n].e)
               F  == IF n = 0 THEN 0 ELSE Scaled(rates[1], e0)
               L  == IF n = 0 THEN 0 ELSE Scaled(rates[n], e0)
               flat == n < 2 \/ F = 0 \/ Abs(L - F) * 1000 < Abs(F)
           IN  retTrend = (IF flat THEN 2 ELSE IF Sign(L - F) * Sign(F) > 0 THEN 0 ELSE 1)

\* C6 witness: a rise of exactly 0.1 percent, over a series with a middle element
\* below both ends, is classified up
C6_Witness ==
    /\ op = "analyze_rate_trend" /\ pc = "done" /\ retTrend = 0
    /\ rates = <<Dec(1, 0), Dec(8, -1), Dec(1001, -3)>>

\* C7: get_currency_conversion_result returns amount * r at exactly 4 decimal
\* places, rounded half-even, r being the rate the upstream returned; for
\* base == target it returns the amount at 4 decimal places.
C7_HalfEvenFourPlaces ==
    (op = "get_currency_conversion_result" /\ outcome = "returned") =>
        /\ retDec.e = QuantExp
        /\ IF Upper(base) = Upper(target)
           THEN DecEq(retDec, amount) /\ fetches = 0
           ELSE RoundsHalfEven(DecMul(amount, JsonValue(latestData)), retDec.c)

\* C7 witness: 1 * 1.23445 is a tie at the 5th decimal and goes to 1.2344
C7_Witness ==
    /\ op = "get_currency_conversion_result" /\ outcome = "returned"
    /\ amount = Dec(1, 0) /\ latestData = JFloat(123445, -5)
    /\ retDec = Dec(12344, -4)

\* C8 as stated: the codes returned by get_supported_currencies are upper-cased and
\* strictly ascending (sorted, none twice), whatever the keys of the upstream mapping.
C8_SortedUpperNoDuplicates ==
    (op = "get_supported_currencies" /\ outcome = "returned") =>
        /\ \A i \in 1..Len(retCodes) : retCodes[i] = Upper(retCodes[i])
        /\ \A i \in 1..Len(retCodes) : \A j \in 1..Len(retCodes) :
              i < j => StrLt(retCodes[i], retCodes[j])

\* C9: a failed fetch (a status >= 400 once the retries are over, a body that is
\* not JSON) or a /latest payload without the target ends the operation with an
\* exception: nothing is returned, and nothing runs after it.
C9_FailureIsTerminal ==
    /\ (failure # "none" \/ latestData.k = "absent") =>
          (pc = "done" /\ outcome = "raised" /\ NoValue)
    /\ (pc = "done" /\ lastStatus >= ErrorStatus) => (outcome = "raised" /\ NoValue)
    /\ outcome = "raised" => (pc = "done" /\ NoValue)

\* C9 witness: the seed call of get_monthly_rates failed after its retries
C9_Witness ==
    /\ op = "get_monthly_rates" /\ liveCalls = 1 /\ failure = "retry"
    /\ outcome = "raised" /\ retSeries = <<>>

\* C10 as stated: in a successful POST /convert the result answered (and stored) is
\* amount * rate at 4 decimal places for the rate answered (and stored).
C10_RateAndResultAgree ==
    (op = "convert_currency" /\ outcome = "returned") =>
        /\ DecEq(response.result, Quantize(DecMul(amount, response.rate)))
        /\ \A i \in 1..Len(records) :
              DecEq(records[i].result, Quantize(DecMul(amount, records[i].rate)))

====
